---------------------------- MODULE Spec2Model ----------------------------
(***************************************************************************)
(* CPUWeigher of nova/scheduler/weights/cpu.py.                            *)
(*                                                                         *)
(* State: the telemetry list CORE_USAGE['core_usage'] (a module global     *)
(* imported from ..manager), the configured cpu_weight_multiplier, and    *)
(* the frame of the weigher call in progress (its arguments, the locals    *)
(* that the call assigned, the line at which it left, and its outcome).    *)
(*                                                                         *)
(* Spec is the scheduler weighing hosts for requests, whose hints are a     *)
(* dict keyed by str.  SpecAnyMapping adds the calls on a mapping that      *)
(* holds the builtin class  type  as a key, the only ones for which the     *)
(* test of line 46 lets lines 52-92 run.  SpecMultiplier is the scheduler   *)
(* asking for the weigher's multiplier.                                     *)
(*                                                                         *)
(* Numbers.  Python's true division and float arithmetic are modelled by   *)
(* exact rationals [n, d] in lowest terms.  math.sqrt is exact for         *)
(* rational squares; any other root is kept symbolically: a real number   *)
(* is the triple [a, c, s] that stands for a + c * sqrt(s), c in -1..1.    *)
(***************************************************************************)
EXTENDS Integers, Sequences, FiniteSets, TLC

VARIABLES CORE_USAGE, CONF, call

vars == <<CORE_USAGE, CONF, call>>

----------------------------------------------------------------------------
(* Bounds of the model *)

MaxRecords == 2

----------------------------------------------------------------------------
(* Exact rational arithmetic *)

Abs(x) == IF x < 0 THEN -x ELSE x

RECURSIVE GCD(_, _)
GCD(a, b) == IF b = 0 THEN a ELSE GCD(b, a % b)

\* n / d in lowest terms (1/0 and 0/0 stand for an infinity and a NaN)
Rat(n, d) ==
    LET g == IF n = 0 /\ d = 0 THEN 1 ELSE GCD(Abs(n), Abs(d))
        s == IF d < 0 THEN -1 ELSE 1
    IN  [n |-> (s * n) \div g, d |-> (s * d) \div g]

IntRat(k) == [n |-> k, d |-> 1]

RatAdd(x, y) == Rat(x.n * y.d + y.n * x.d, x.d * y.d)
RatSub(x, y) == Rat(x.n * y.d - y.n * x.d, x.d * y.d)
RatMul(x, y) == Rat(x.n * y.n, x.d * y.d)
RatLt(x, y)  == x.n * y.d < y.n * x.d
RatLe(x, y)  == x.n * y.d <= y.n * x.d

\* the integer square root of k >= 0, by bisection on lo..hi
RECURSIVE ISqrtIn(_, _, _)
ISqrtIn(k, lo, hi) ==
    IF lo >= hi THEN lo
    ELSE LET mid == (lo + hi + 1) \div 2
         IN  IF mid * mid <= k THEN ISqrtIn(k, mid, hi)
                               ELSE ISqrtIn(k, lo, mid - 1)

ISqrt(k) == ISqrtIn(k, 0, k)

IsSquare(k) == ISqrt(k) * ISqrt(k) = k

----------------------------------------------------------------------------
(* Values of the program *)

\* hint names: the str 'type', another str, and the builtin class object
\* that the bare name  type  denotes in Python
TypeClass == "<class 'type'>"

HintValues == {"evictable", "Evictable", "regular"}

HostIPs == {<<10, 0, 0, 1>>, <<10, 0, 0, 2>>}

RecordIPs == {"10.0.0.1", "10.0.0.2"}

\* <<available, used>> core counts of the regular and of the green pool
RegCores   == {<<0, 16>>, <<16, 16>>, <<16, 17>>}
GreenCores == {<<0, 4>>, <<5, 0>>, <<5, 4>>, <<5, 15>>}

Ratios == {Rat(1, 1), Rat(3, 2)}

VcpusTotal == {10, 16}
VcpusUsed  == {4, 20}

----------------------------------------------------------------------------
(* Real numbers a + c * sqrt(s) *)

Real(q) == [a |-> q, c |-> 0, s |-> IntRat(0)]

\* math.sqrt(x) for a rational x >= 0
Sqrt(x) ==
    IF IsSquare(x.n) /\ IsSquare(x.d)
    THEN Real(Rat(ISqrt(x.n), ISqrt(x.d)))
    ELSE [a |-> IntRat(0), c |-> 1, s |-> x]

\* 1 - v
OneMinus(v) == [a |-> RatSub(IntRat(1), v.a), c |-> 0 - v.c, s |-> v.s]

\* v < 0, for v = a, v = a - sqrt(s) or v = a + sqrt(s)
Negative(v) ==
    CASE v.c = 0  -> RatLt(v.a, IntRat(0))
      [] v.c < 0  -> RatLt(v.a, IntRat(0)) \/ RatLt(RatMul(v.a, v.a), v.s)
      [] OTHER    -> RatLt(v.a, IntRat(0)) /\ RatLt(v.s, RatMul(v.a, v.a))

----------------------------------------------------------------------------
(* Inputs *)

\* str(host_ip) of an IPAddress object
str(host_ip) ==
    CASE host_ip = <<10, 0, 0, 1>> -> "10.0.0.1"
      [] host_ip = <<10, 0, 0, 2>> -> "10.0.0.2"

NoAggregates == [k \in {} |-> IntRat(0)]

Multipliers == {Rat(0 - 1, 1), Rat(1, 2), Rat(1, 1), Rat(2, 1)}

\* the metadata of the host's aggregates: option name -> value
AggregateMetadata ==
    UNION { [D -> Multipliers] :
              D \in SUBSET {"cpu_weight_multiplier", "ram_weight_multiplier"} }

HostState(ip, total, ratio, used, md) ==
    [host_ip |-> ip, vcpus_total |-> total, cpu_allocation_ratio |-> ratio,
     vcpus_used |-> used, aggregates |-> md]

HostStates ==
    { HostState(ip, total, ratio, used, NoAggregates) :
        ip \in HostIPs, total \in VcpusTotal, ratio \in Ratios, used \in VcpusUsed }

\* one entry of CORE_USAGE['core_usage']
CoreUsageRecords ==
    { [host_ip |-> ip, reg_cores_avl |-> r[1], reg_cores_usg |-> r[2],
       green_cores_avl |-> g[1], green_cores_usg |-> g[2]] :
        ip \in RecordIPs, r \in RegCores, g \in GreenCores }

\* the value lists of the 'type' hint
TypeHintLists ==
    {<<>>} \cup { <<v>> : v \in HintValues }
           \cup {<<"regular", "evictable">>, <<"evictable", "regular">>}

OtherHintList == <<"x">>

\* the mappings with keys in K:  'type' maps to any list of TypeHintLists,
\* every other key to OtherHintList
HintsOver(K) ==
    UNION { { [k \in D |-> IF k = "type" THEN l ELSE OtherHintList] :
                l \in TypeHintLists } : D \in SUBSET K }

\* scheduler_hints as the request carries them: a dict keyed by str
SchedulerHints == HintsOver({"type", "group"})

\* any dict on which  type in hints  is true: it holds the class as a key
ClassKeyedHints == { h \in HintsOver({"type", TypeClass}) : TypeClass \in DOMAIN h }

NoHints == [k \in {} |-> <<>>]

\* hosts that differ in their aggregates' metadata only
AggregateHostStates ==
    { HostState(ip, 10, Rat(1, 1), 4, md) : ip \in HostIPs, md \in AggregateMetadata }

----------------------------------------------------------------------------
(* CPUWeigher._weigh_object *)

\* line 46:  type in hints  -- the name  type  is the builtin class
type_in_hints(hints) == TypeClass \in DOMAIN hints

\* the score with the allocation ratio left out
vcpus_free_without_ratio(host_state) ==
    IntRat(host_state.vcpus_total - host_state.vcpus_used)

\* lines 47-49
vcpus_free(host_state) ==
    RatSub(RatMul(IntRat(host_state.vcpus_total), host_state.cpu_allocation_ratio),
           IntRat(host_state.vcpus_used))

\* line 53, the exception of  hints['type'][0]  ("none" when it has a value)
type_hint_error(hints) ==
    IF "type" \notin DOMAIN hints THEN "KeyError"
    ELSE IF Len(hints["type"]) = 0 THEN "IndexError"
    ELSE "none"

\* line 53:  hints['type'][0] == 'evictable'
is_evct(hints) == hints["type"][1] = "evictable"

\* line 57:  list(filter(lambda x: x['host-ip'] == str(host_ip), ...))
filter_core_usage(host_state, usage) ==
    SelectSeq(usage, LAMBDA x : x.host_ip = str(host_state.host_ip))

\* lines 66-67: the line at which a true division raises ZeroDivisionError,
\* 0 when neither does
zero_division_line(core_usage) ==
    IF core_usage.reg_cores_avl = 0 THEN 66
    ELSE IF core_usage.green_cores_avl = 0 THEN 67
    ELSE 0

\* the features without abs()
p_host_without_abs(core_usage) ==
    [deficit |-> Rat(core_usage.reg_cores_avl - core_usage.reg_cores_usg,
                     core_usage.reg_cores_avl),
     promise |-> Rat(core_usage.green_cores_avl - core_usage.green_cores_usg,
                     core_usage.green_cores_avl)]

\* lines 61-68
p_host(core_usage) ==
    [deficit |-> Rat(Abs(core_usage.reg_cores_avl - core_usage.reg_cores_usg),
                     core_usage.reg_cores_avl),
     promise |-> Rat(Abs(core_usage.green_cores_avl - core_usage.green_cores_usg),
                     core_usage.green_cores_avl)]

\* lines 74-83
ref_vals ==
    [p_ref_reg  |-> [promise |-> Rat(1, 1), deficit |-> Rat(625, 10000)],
     p_ref_evct |-> [promise |-> Rat(2, 10), deficit |-> Rat(0, 1)]]

\* line 86
p_ref(evct) == IF evct THEN ref_vals.p_ref_evct ELSE ref_vals.p_ref_reg

Square(x) == RatMul(x, x)

\* lines 87-90
distance(host, ref) ==
    Sqrt(RatAdd(Square(RatSub(host.deficit, ref.deficit)),
                Square(RatSub(host.promise, ref.promise))))

\* line 91
final_weight(dist) == OneMinus(dist)

\* values of locals that the call has not assigned
Unset     == IntRat(0)
UnsetPt   == [promise |-> Unset, deficit |-> Unset]
UnsetReal == Real(Unset)
UnsetRec  == [host_ip |-> "", reg_cores_avl |-> 0, reg_cores_usg |-> 0,
              green_cores_avl |-> 0, green_cores_usg |-> 0]

\* the frame of a call that has not reached line 46
Frame(op, host_state, hints) ==
    [op |-> op, host_state |-> host_state, hints |-> hints,
     line |-> 0, path |-> "none", exc |-> "none",
     is_evct |-> FALSE, matches |-> <<>>, core_usage |-> UnsetRec,
     p_host |-> UnsetPt, p_ref |-> UnsetPt, distance |-> UnsetReal,
     ret |-> UnsetReal]

Raise(f, line, exc) == [f EXCEPT !.line = line, !.exc = exc]

Return(f, line, value) == [f EXCEPT !.line = line, !.ret = value]

\* lines 43-92: the frame in which the call leaves, for the telemetry  usage
_weigh_object(host_state, hints, usage) ==
    LET f0 == Frame("weigh", host_state, hints) IN
    IF ~ type_in_hints(hints)
    THEN Return([f0 EXCEPT !.path = "default"], 50, Real(vcpus_free(host_state)))
    ELSE
    LET f1 == [f0 EXCEPT !.path = "criticality"] IN
    IF type_hint_error(hints) # "none"
    THEN Raise(f1, 53, type_hint_error(hints))
    ELSE
    LET f2 == [f1 EXCEPT !.is_evct = is_evct(hints),
                         !.matches = filter_core_usage(host_state, usage)] IN
    IF Len(f2.matches) = 0
    THEN Raise(f2, 58, "IndexError")
    ELSE
    LET f3 == [f2 EXCEPT !.core_usage = f2.matches[1]] IN
    IF zero_division_line(f3.core_usage) # 0
    THEN Raise(f3, zero_division_line(f3.core_usage), "ZeroDivisionError")
    ELSE
    LET f4 == [f3 EXCEPT !.p_host = p_host(f3.core_usage),
                         !.p_ref  = p_ref(f3.is_evct)]
        f5 == [f4 EXCEPT !.distance = distance(f4.p_host, f4.p_ref)]
    IN  Return(f5, 92, final_weight(f5.distance))

----------------------------------------------------------------------------
(* CPUWeigher.weight_multiplier *)

\* nova.scheduler.utils.get_weight_multiplier: the override of the host's
\* aggregates when they define one, else the configured value
get_weight_multiplier(host_state, multiplier_name, multiplier_config) ==
    IF multiplier_name \in DOMAIN host_state.aggregates
    THEN host_state.aggregates[multiplier_name]
    ELSE multiplier_config

\* the override looked up under another weigher's option name
weight_multiplier_other_option(host_state, conf) ==
    get_weight_multiplier(host_state, "ram_weight_multiplier", conf)

\* lines 37-41
weight_multiplier(host_state, conf) ==
    get_weight_multiplier(host_state, "cpu_weight_multiplier", conf)

----------------------------------------------------------------------------
(* The scheduler around the weigher *)

IdleHost == HostState(<<10, 0, 0, 1>>, 0, Rat(1, 1), 0, NoAggregates)

Idle == Frame("idle", IdleHost, NoHints)

DefaultMultiplier == Rat(1, 1)

Init ==
    /\ CORE_USAGE = <<>>
    /\ CONF = DefaultMultiplier
    /\ call = Idle

\* the telemetry collaborator publishes one more record, or starts a new list
TelemetryRefresh ==
    /\ call.op = "idle"
    /\ \/ /\ Len(CORE_USAGE) < MaxRecords
          /\ \E r \in CoreUsageRecords : CORE_USAGE' = Append(CORE_USAGE, r)
       \/ /\ Len(CORE_USAGE) > 0
          /\ CORE_USAGE' = <<>>
    /\ UNCHANGED <<CONF, call>>

\* the scheduler weighs one host for a request
WeighObject ==
    /\ call.op = "idle"
    /\ \E host_state \in HostStates, hints \in SchedulerHints :
          call' = _weigh_object(host_state, hints, CORE_USAGE)
    /\ UNCHANGED <<CORE_USAGE, CONF>>

\* the same call on a mapping that holds the class  type  as a key
WeighObjectClassKeyed ==
    /\ call.op = "idle"
    /\ \E host_state \in HostStates, hints \in ClassKeyedHints :
          call' = _weigh_object(host_state, hints, CORE_USAGE)
    /\ UNCHANGED <<CORE_USAGE, CONF>>

\* the scheduler asks for the multiplier of one host
WeightMultiplier ==
    /\ call.op = "idle"
    /\ \E host_state \in AggregateHostStates :
          call' = Return(Frame("multiplier", host_state, NoHints), 41,
                         Real(weight_multiplier(host_state, CONF)))
    /\ UNCHANGED <<CORE_USAGE, CONF>>

\* the call has left: the scheduler drops its frame
Leave ==
    /\ call.op # "idle"
    /\ call' = Idle
    /\ UNCHANGED <<CORE_USAGE, CONF>>

\* requests as the scheduler builds them: hints keyed by str
Next == TelemetryRefresh \/ WeighObject \/ Leave

Spec == Init /\ [][Next]_vars

\* the call on any mapping, the ones that hold the class as a key included:
\* these are the calls for which line 46 lets the criticality block run
NextAnyMapping ==
    TelemetryRefresh \/ WeighObject \/ WeighObjectClassKeyed \/ Leave

SpecAnyMapping == Init /\ [][NextAnyMapping]_vars

\* the multiplier, for every configured value
InitMultiplier ==
    /\ CORE_USAGE = <<>>
    /\ CONF \in Multipliers
    /\ call = Idle

NextMultiplier == WeightMultiplier \/ Leave

SpecMultiplier == InitMultiplier /\ [][NextMultiplier]_vars

----------------------------------------------------------------------------
(* What the claims speak of *)

Weighed     == call.op = "weigh"
HasTypeHint == "type" \in DOMAIN call.hints

\* the 'type' hint has a first value, which names the class
NamesClass  == HasTypeHint /\ Len(call.hints["type"]) > 0
Failed      == call.exc # "none"

\* the positions of the weighed host's records in the telemetry
MatchingRecords ==
    { i \in 1..Len(CORE_USAGE) : CORE_USAGE[i].host_ip = str(call.host_state.host_ip) }

\* the telemetry holds exactly one record of the weighed host
OneMatch == Cardinality(MatchingRecords) = 1

\* that record
TheRecord == CORE_USAGE[CHOOSE i \in MatchingRecords : TRUE]

NonZeroDenominators(r) == r.reg_cores_avl # 0 /\ r.green_cores_avl # 0

\* the free-capacity score  total * ratio - used
FreeCapacity(h) ==
    Rat(h.vcpus_total * h.cpu_allocation_ratio.n - h.vcpus_used * h.cpu_allocation_ratio.d,
        h.cpu_allocation_ratio.d)

\* the two reference points
RegularPoint   == [promise |-> Rat(1, 1), deficit |-> Rat(1, 16)]
EvictablePoint == [promise |-> Rat(1, 5), deficit |-> Rat(0, 1)]

\* the point of the class that the first value of the 'type' hint names
ClassPoint ==
    IF call.hints["type"][1] = "evictable" THEN EvictablePoint ELSE RegularPoint

\* the features of a record with non-zero denominators
Deficit(r) == Rat(Abs(r.reg_cores_avl - r.reg_cores_usg), r.reg_cores_avl)
Promise(r) == Rat(Abs(r.green_cores_avl - r.green_cores_usg), r.green_cores_avl)

\* the squared Euclidean distance of the record's features to the point pt
SquaredDistance(r, pt) ==
    RatAdd(RatMul(RatSub(Deficit(r), pt.deficit), RatSub(Deficit(r), pt.deficit)),
           RatMul(RatSub(Promise(r), pt.promise), RatSub(Promise(r), pt.promise)))

\* v is 1 minus the Euclidean distance of r's features to pt: it is 1 exactly
\* at pt and negative exactly when the distance exceeds 1
IsProximityScore(v, r, pt) ==
    /\ v = OneMinus(Sqrt(SquaredDistance(r, pt)))
    /\ (v = Real(IntRat(1))) <=> (Deficit(r) = pt.deficit /\ Promise(r) = pt.promise)
    /\ Negative(v) <=> RatLt(IntRat(1), SquaredDistance(r, pt))

\* a request with a 'type' hint that names a class, for a host with one
\* telemetry record whose denominators are not zero
WellFormedCriticalityCall ==
    /\ Weighed /\ NamesClass
    /\ OneMatch
    /\ NonZeroDenominators(TheRecord)

\* the call ran the criticality block to its end
Scored == Weighed /\ call.path = "criticality" /\ call.line = 92

----------------------------------------------------------------------------
(* C1 *)

\* C1: a weigher call takes the default path if and only if its hints hold
\* no entry named 'type'; with such an entry it takes the criticality path.
ModeSelection ==
    Weighed => ((call.path = "default") <=> ~ HasTypeHint)

----------------------------------------------------------------------------
(* C2 *)

\* C2: a call whose hints hold no entry named 'type' never fails and returns
\* exactly total_cores * allocation_ratio - used_cores.
DefaultPathResult ==
    (Weighed /\ ~ HasTypeHint) =>
        /\ ~ Failed
        /\ call.ret = Real(FreeCapacity(call.host_state))

\* total = 10, ratio = 1.5, used = 4 scores 11
DefaultPathExample ==
    /\ Weighed /\ ~ HasTypeHint
    /\ call.host_state.vcpus_total = 10
    /\ call.host_state.cpu_allocation_ratio = Rat(3, 2)
    /\ call.host_state.vcpus_used = 4
    /\ call.ret = Real(IntRat(11))

----------------------------------------------------------------------------
(* C3 *)

\* C3: a call with a 'type' hint for a host that no telemetry record matches
\* ends in an error and returns no score.  (Stated for the hints that name a
\* class; the empty value list is the case of C5.)
ZeroMatchFails ==
    (Weighed /\ NamesClass /\ MatchingRecords = {}) => Failed

----------------------------------------------------------------------------
(* C4 *)

\* C4: a call with a 'type' hint for a host that more than one telemetry
\* record matches ends in an error, as the zero-match case does, and returns
\* no score.  (Stated for the hints that name a class.)
AmbiguousMatchFails ==
    (Weighed /\ NamesClass /\ Cardinality(MatchingRecords) > 1) => Failed

----------------------------------------------------------------------------
(* C5 *)

\* C5: a call whose 'type' hint has an empty value list does not fail on the
\* missing first value, takes the criticality path and, when it scores, uses
\* the regular point.
EmptyTypeHintIsRegular ==
    (Weighed /\ HasTypeHint /\ call.hints["type"] = <<>>) =>
        /\ call.exc \notin {"IndexError", "KeyError"}
        /\ call.path = "criticality"
        /\ (call.exc = "none" => call.p_ref = RegularPoint)

----------------------------------------------------------------------------
(* C6 *)

\* C6: a call with a 'type' hint whose matched record has
\* regular_available = 0 or green_available = 0 ends in an error and returns
\* no weight.  (Stated for the hints that name a class.)
ZeroDenominatorFails ==
    (Weighed /\ NamesClass /\ OneMatch /\ ~ NonZeroDenominators(TheRecord))
    => Failed

----------------------------------------------------------------------------
(* C7 *)

\* C7: for a 'type' hint with a non-empty value list the call uses exactly
\* one of the two reference points: the evictable point if and only if the
\* first value is exactly "evictable", the regular point otherwise.
ReferencePointSelection ==
    WellFormedCriticalityCall =>
        /\ call.p_ref \in {RegularPoint, EvictablePoint}
        /\ (call.p_ref = EvictablePoint) <=> (call.hints["type"][1] = "evictable")
        /\ (call.p_ref = RegularPoint) <=> (call.hints["type"][1] # "evictable")

----------------------------------------------------------------------------
(* C8 *)

\* C8: weight_multiplier returns the override of cpu_weight_multiplier in the
\* host's aggregates when there is one and the configured value otherwise; it
\* never fails and changes no state.
MultiplierResolution ==
    [][ call'.op = "multiplier" =>
          /\ call'.exc = "none"
          /\ call'.ret =
                Real(IF "cpu_weight_multiplier" \in DOMAIN call'.host_state.aggregates
                     THEN call'.host_state.aggregates["cpu_weight_multiplier"]
                     ELSE CONF)
          /\ UNCHANGED <<CORE_USAGE, CONF>> ]_vars

\* an override that differs from the configured value was returned
OverrideUsed ==
    /\ call.op = "multiplier"
    /\ "cpu_weight_multiplier" \in DOMAIN call.host_state.aggregates
    /\ "ram_weight_multiplier" \in DOMAIN call.host_state.aggregates
    /\ call.host_state.aggregates["cpu_weight_multiplier"] # CONF
    /\ call.ret = Real(call.host_state.aggregates["cpu_weight_multiplier"])

----------------------------------------------------------------------------
(* C9 *)

\* C9: the weight of a criticality-path call is 1 minus the Euclidean distance
\* between the features of the host's record and the reference point of the
\* class: it is 1 exactly at the reference point and negative exactly when
\* the distance exceeds 1.
ProximityScore ==
    WellFormedCriticalityCall =>
        /\ ~ Failed
        /\ IsProximityScore(call.ret, TheRecord, ClassPoint)

----------------------------------------------------------------------------
(* C10 *)

----------------------------------------------------------------------------
(* The criticality block, lines 52-92, once line 46 lets it run.  These     *)
(* hold under SpecAnyMapping; BlockAmbiguousMatchRaises does not.            *)

\* no record of the host: line 58 raises IndexError
BlockZeroMatchRaises ==
    (Weighed /\ call.path = "criticality" /\ call.line >= 58 /\ MatchingRecords = {})
    => (call.exc = "IndexError" /\ call.line = 58)

\* more than one record of the host: violated, line 58 takes the first
BlockAmbiguousMatchRaises ==
    (Weighed /\ call.path = "criticality" /\ Len(call.matches) > 1) => Failed

\* a zero denominator in the record used: lines 66-67 raise ZeroDivisionError
BlockZeroDenominatorRaises ==
    ( /\ Weighed /\ call.path = "criticality"
      /\ Len(call.matches) > 0
      /\ ~ NonZeroDenominators(call.matches[1]) )
    => (call.exc = "ZeroDivisionError" /\ call.ret = UnsetReal)

\* line 86 selects the point that hints['type'][0] names
BlockReferencePointSelection ==
    Scored => (HasTypeHint /\ Len(call.hints["type"]) > 0 /\ call.p_ref = ClassPoint)

\* lines 87-91 return 1 - distance
BlockProximityScore ==
    Scored => (~ Failed /\ IsProximityScore(call.ret, call.matches[1], ClassPoint))

\* reached: a host at the evictable reference point scores 1
BlockScoreAtReferencePoint ==
    /\ Scored
    /\ call.is_evct
    /\ call.p_host = EvictablePoint
    /\ call.ret = Real(IntRat(1))

\* reached: a host farther than 1 from its reference point scores below 0
BlockNegativeScore == Scored /\ Negative(call.ret)

====
